---- MODULE Spec2Model ----
\* A model of docs/examples/usage.py of pylossless: the tutorial script that
\* saves a default configuration, downloads a BIDS dataset, runs the pipeline,
\* defines an import function for EGI recordings and converts recordings to
\* BIDS from parameter records kept in memory or in CSV files.
\*
\* Four specifications share the interpreter state (pc, status, error, log,
\* globals):
\*   Spec       the script run top to bottom in a fresh interpreter (lines 9-75;
\*              line 75 always raises, so no later line is ever executed);
\*   TableSpec  the conversion cells, lines 119-141, entered with the names of
\*              the earlier cells bound;
\*   RunSpec    one call of pipeline.run_dataset(bids_paths);
\*   EgiSpec    calls of egi_import_fct, lines 95-115.
EXTENDS Integers, Sequences, FiniteSets, TLC

VARIABLES
    pc,          \* line number of the statement about to execute
    status,      \* "running", "failed" (uncaught exception) or "done"
    error,       \* name of the uncaught exception, "none" while there is none
    log,         \* line numbers of the statements completed, in order
    globals,     \* names bound in the module namespace
    fs,          \* configuration files in the working directory, by path
    config,      \* the object bound to `config`
    pipeline,    \* the object bound to `pipeline`
    local,       \* subject directories present under bids_root
    raw,         \* the recording bound to `raw` ("none" while unbound)
    runs,        \* recordings pipeline.run has processed, in order
    import_args,     \* the list bound to `import_args`
    bids_path_args,  \* the list bound to `bids_path_args`
    csv,             \* the CSV files written by lines 132-133, by path
    bids_paths,      \* the list bound to `bids_paths`
    first_paths,     \* history: the list line 125 returned
    written,         \* history: the records lines 132-133 wrote, by path
    rd,              \* run_dataset: its argument, loop index, phase, trace
    egi              \* egi_import_fct: the calls made, frame of the current call

interp == <<pc, status, error, log, globals>>
scriptVars == <<fs, config, pipeline, local, raw, runs>>
tableVars ==
    <<import_args, bids_path_args, csv, bids_paths, first_paths, written>>
vars == <<interp, scriptVars, tableVars, rd, egi>>

\* ------------------------------------------------------------------ bounds

\* Longest string drawn for a parameter value.
MaxStrLen == 2
\* Most records in a parameter table.
MaxRecords == 2
\* Most paths handed to run_dataset.
MaxPaths == 3
\* Most events on one stimulus channel of a recording.
MaxEvents == 1

\* ------------------------------------------------------------------ text

Range(s) == {s[i] : i \in 1..Len(s)}

DigitChars == {"0", "1", "2", "3", "4", "5", "6", "7", "8", "9"}

DigitVal(c) ==
    CASE c = "0" -> 0 [] c = "1" -> 1 [] c = "2" -> 2 [] c = "3" -> 3
      [] c = "4" -> 4 [] c = "5" -> 5 [] c = "6" -> 6 [] c = "7" -> 7
      [] c = "8" -> 8 [] c = "9" -> 9

DigitChar(d) ==
    CASE d = 0 -> "0" [] d = 1 -> "1" [] d = 2 -> "2" [] d = 3 -> "3"
      [] d = 4 -> "4" [] d = 5 -> "5" [] d = 6 -> "6" [] d = 7 -> "7"
      [] d = 8 -> "8" [] d = 9 -> "9"

\* A text is a sequence of characters; it is an integer literal when it is a
\* non-empty run of digits.
IsIntLiteral(s) == Len(s) > 0 /\ \A i \in 1..Len(s) : s[i] \in DigitChars

RECURSIVE ParseInt(_)
ParseInt(s) ==
    IF s = << >> THEN 0
    ELSE ParseInt(SubSeq(s, 1, Len(s) - 1)) * 10 + DigitVal(s[Len(s)])

RECURSIVE IntToText(_)
IntToText(n) ==
    IF n < 10 THEN <<DigitChar(n)>>
    ELSE IntToText(n \div 10) \o <<DigitChar(n % 10)>>

\* Python values of the parameter records and of the configuration: a str or
\* an int.
StrVal(s) == [t |-> "str", s |-> s, i |-> 0]
IntVal(n) == [t |-> "int", s |-> << >>, i |-> n]

\* str(v), the text a value is written as.
TextOf(v) == IF v.t = "str" THEN v.s ELSE IntToText(v.i)

\* ------------------------------------------------- the module's statements

\* The statements of the file, by the line each starts on, in file order.
Lines ==
    <<9, 11, 13, 14, 16, 18, 27, 28, 29, 30, 41, 42, 45, 46, 48, 55, 56, 57,
      58, 59, 61, 67, 68, 75, 95, 119, 122, 125, 132, 133, 138, 139, 140, 141>>

LineIndex(l) == CHOOSE i \in 1..Len(Lines) : Lines[i] = l

\* A variant that passes over line 30.
NextLineSkipping(l) ==
    IF LineIndex(l) = Len(Lines) THEN 0
    ELSE IF Lines[LineIndex(l) + 1] = 30 THEN 41
    ELSE Lines[LineIndex(l) + 1]

\* Statements run one after another: the statement after line l, 0 after the
\* last one.
NextLine(l) ==
    IF LineIndex(l) = Len(Lines) THEN 0 ELSE Lines[LineIndex(l) + 1]

\* The names a statement binds in the module namespace.
Writes(l) ==
    CASE l = 9 -> {"tempfile"}
      [] l = 11 -> {"pd"}
      [] l = 13 -> {"sample"}
      [] l = 14 -> {"mne_bids"}
      [] l = 16 -> {"openneuro"}
      [] l = 18 -> {"ll"}
      [] l = 27 -> {"config"}
      [] l = 41 -> {"dataset"}
      [] l = 42 -> {"subject"}
      [] l = 45 -> {"bids_root"}
      [] l = 55 -> {"datatype"}
      [] l = 56 -> {"session"}
      [] l = 57 -> {"task"}
      [] l = 58 -> {"suffix"}
      [] l = 59 -> {"bids_path"}
      [] l = 61 -> {"raw"}
      [] l = 67 -> {"pipeline"}
      [] l = 95 -> {"egi_import_fct"}
      [] l = 119 -> {"import_args"}
      [] l = 122 -> {"bids_path_args"}
      [] l = 125 -> {"bids_paths"}
      [] l = 138 -> {"import_args"}
      [] l = 139 -> {"bids_path_args"}
      [] l = 140 -> {"bids_paths"}
      [] OTHER -> {}

\* The names a statement looks up in the module namespace when it runs.
Reads(l) ==
    CASE l = 27 -> {"ll"}
      [] l \in {28, 29, 30} -> {"config"}
      [] l = 45 -> {"sample", "dataset"}
      [] l = 46 -> {"bids_root"}
      [] l = 48 -> {"openneuro", "dataset", "bids_root", "subject"}
      [] l = 59 -> {"mne_bids", "subject", "session", "task", "suffix",
                    "datatype", "bids_root"}
      [] l = 61 -> {"mne_bids", "bids_path"}
      [] l = 67 -> {"ll"}
      [] l = 68 -> {"pipeline", "raw"}
      [] l = 75 -> {"pipeline", "bids_paths"}
      [] l \in {125, 140} -> {"ll", "egi_import_fct", "import_args",
                              "bids_path_args"}
      [] l = 132 -> {"pd", "import_args"}
      [] l = 133 -> {"pd", "bids_path_args"}
      [] l \in {138, 139} -> {"pd"}
      [] l = 141 -> {"pipeline", "bids_paths"}
      [] OTHER -> {}

\* The names egi_import_fct looks up in the module namespace (its parameters
\* and locals are not among them).
EgiReads(l) ==
    CASE l \in {98, 101} -> {"mne"}
      [] l = 109 -> {"mne", "Path"}
      [] l = 105 -> {"tempfile"}
      [] l = 106 -> {"Path"}
      [] OTHER -> {}

\* The names the import statements of the file bind (lines 9-18).
ImportedNames == {"tempfile", "pd", "sample", "mne_bids", "openneuro", "ll"}

\* The statement at line l has completed: control moves to the next one.
Complete(l) ==
    /\ pc' = NextLine(l)
    /\ log' = Append(log, l)
    /\ globals' = globals \cup Writes(l)
    /\ status' = IF NextLine(l) = 0 THEN "done" ELSE "running"
    /\ error' = error

\* A variant in which the exception is noted and the next statement runs.
RaiseAndContinue(exc) ==
    /\ error' = exc
    /\ pc' = NextLine(pc)
    /\ UNCHANGED <<status, log, globals>>

\* An exception nothing catches: the file has no try statement, so the
\* interpreter stops at the statement that raised.
Raise(exc) ==
    /\ status' = "failed"
    /\ error' = exc
    /\ UNCHANGED <<pc, log, globals>>

At(l) == status = "running" /\ pc = l

Bound(l) == Reads(l) \subseteq globals

\* ------------------------------------------------------- the configuration

\* The configuration is opaque to the script: a mapping from option names to
\* values. Two options, one usually a string and one usually a number, stand
\* for it.
ConfigKeys == {"project", "n_jobs"}

ConfigVals == {StrVal(<<"m">>), StrVal(<<"0", "1">>), IntVal(1)}

Configs == [ConfigKeys -> ConfigVals]

NoVals == [k \in ConfigKeys |-> StrVal(<< >>)]

\* yaml.dump of a scalar: a string that would read back as a number is quoted.
YamlScalar(v) ==
    IF v.t = "int" THEN IntToText(v.i)
    ELSE IF IsIntLiteral(v.s) THEN <<"'">> \o v.s \o <<"'">>
    ELSE v.s

\* yaml.safe_load of a scalar.
YamlParse(text) ==
    IF Len(text) >= 2 /\ text[1] = "'" /\ text[Len(text)] = "'"
    THEN StrVal(SubSeq(text, 2, Len(text) - 1))
    ELSE IF IsIntLiteral(text) THEN IntVal(ParseInt(text))
    ELSE StrVal(text)

YamlDump(vals) == [k \in DOMAIN vals |-> YamlScalar(vals[k])]

YamlLoad(doc) == [k \in DOMAIN doc |-> YamlParse(doc[k])]

\* The path line 30 saves the configuration to.
SavePathOther == "my_project_config.yaml"

SavePath == "my_project_ll_config.yaml"

\* The path line 67 constructs the pipeline from.
PipelineConfigPath == "my_project_ll_config.yaml"

\* The file system with `text` written at `path`.
WriteFile(files, path, text) ==
    [p \in DOMAIN files \cup {path} |-> IF p = path THEN text ELSE files[p]]

NoFiles == [p \in {} |-> << >>]

\* ------------------------------------------------------ lines 9-75, in turn

SubjectDir == "sub-pd6"

Recording == "sub-pd6_ses-off_task-rest_eeg"

\* Lines 9-18: an import binds its name, or raises when the package is absent.
Import ==
    /\ \E l \in {9, 11, 13, 14, 16, 18} :
        /\ At(l)
        /\ \/ Complete(l)
           \/ Raise("ImportError")
    /\ UNCHANGED <<scriptVars, tableVars, rd, egi>>

\* Lines 41, 42, 55-58: a literal is bound to a name.
Assign ==
    /\ \E l \in {41, 42, 55, 56, 57, 58} : At(l) /\ Complete(l)
    /\ UNCHANGED <<scriptVars, tableVars, rd, egi>>

\* Line 27: config = ll.config.Config()
NewConfig ==
    /\ At(27)
    /\ IF Bound(27)
       THEN /\ config' = [state |-> "empty", vals |-> NoVals]
            /\ Complete(27)
       ELSE Raise("NameError") /\ UNCHANGED config
    /\ UNCHANGED <<fs, pipeline, local, raw, runs, tableVars, rd, egi>>

\* Line 28: config.load_default() fills the object from the packaged template.
LoadDefault ==
    /\ At(28)
    /\ IF Bound(28)
       THEN \/ \E c \in Configs :
                /\ config' = [state |-> "loaded", vals |-> c]
                /\ Complete(28)
            \/ Raise("FileNotFoundError") /\ UNCHANGED config
       ELSE Raise("NameError") /\ UNCHANGED config
    /\ UNCHANGED <<fs, pipeline, local, raw, runs, tableVars, rd, egi>>

\* Line 29: config.print()
PrintConfig ==
    /\ At(29)
    /\ IF Bound(29) THEN Complete(29) ELSE Raise("NameError")
    /\ UNCHANGED <<scriptVars, tableVars, rd, egi>>

\* Line 30: config.save("my_project_ll_config.yaml")
SaveConfig ==
    /\ At(30)
    /\ IF Bound(30)
       THEN \/ /\ fs' = WriteFile(fs, SavePath, YamlDump(config.vals))
               /\ Complete(30)
            \/ Raise("OSError") /\ UNCHANGED fs
       ELSE Raise("NameError") /\ UNCHANGED fs
    /\ UNCHANGED <<config, pipeline, local, raw, runs, tableVars, rd, egi>>

\* Line 45: bids_root = sample.data_path() / dataset
DataPath ==
    /\ At(45)
    /\ IF Bound(45)
       THEN Complete(45) \/ Raise("RuntimeError")
       ELSE Raise("NameError")
    /\ UNCHANGED <<scriptVars, tableVars, rd, egi>>

\* Line 46: bids_root.mkdir(exist_ok=True)
Mkdir ==
    /\ At(46)
    /\ IF Bound(46)
       THEN Complete(46) \/ Raise("OSError")
       ELSE Raise("NameError")
    /\ UNCHANGED <<scriptVars, tableVars, rd, egi>>

\* Lines 48-49: openneuro.download(dataset, target_dir=bids_root, include=...)
Download ==
    /\ At(48)
    /\ IF Bound(48)
       THEN \/ local' = local \cup {SubjectDir} /\ Complete(48)
            \/ Raise("RuntimeError") /\ UNCHANGED local
       ELSE Raise("NameError") /\ UNCHANGED local
    /\ UNCHANGED <<fs, config, pipeline, raw, runs, tableVars, rd, egi>>

\* Lines 59-60: bids_path = mne_bids.BIDSPath(...)
NewBidsPath ==
    /\ At(59)
    /\ IF Bound(59) THEN Complete(59) ELSE Raise("NameError")
    /\ UNCHANGED <<scriptVars, tableVars, rd, egi>>

\* Line 61: raw = mne_bids.read_raw_bids(bids_path)
ReadRawBids ==
    /\ At(61)
    /\ IF Bound(61)
       THEN IF SubjectDir \in local
            THEN \/ raw' = Recording /\ Complete(61)
                 \/ Raise("RuntimeError") /\ UNCHANGED raw
            ELSE Raise("FileNotFoundError") /\ UNCHANGED raw
       ELSE Raise("NameError") /\ UNCHANGED raw
    /\ UNCHANGED <<fs, config, pipeline, local, runs, tableVars, rd, egi>>

\* Line 67: pipeline = ll.LosslessPipeline('my_project_ll_config.yaml')
NewPipeline ==
    /\ At(67)
    /\ IF Bound(67)
       THEN IF PipelineConfigPath \in DOMAIN fs
            THEN /\ pipeline' = [state |-> "built",
                                 vals |-> YamlLoad(fs[PipelineConfigPath])]
                 /\ Complete(67)
            ELSE Raise("FileNotFoundError") /\ UNCHANGED pipeline
       ELSE Raise("NameError") /\ UNCHANGED pipeline
    /\ UNCHANGED <<fs, config, local, raw, runs, tableVars, rd, egi>>

\* Line 68: pipeline.run(raw)
Run ==
    /\ At(68)
    /\ IF Bound(68)
       THEN \/ runs' = Append(runs, raw) /\ Complete(68)
            \/ Raise("RuntimeError") /\ UNCHANGED runs
       ELSE Raise("NameError") /\ UNCHANGED runs
    /\ UNCHANGED <<fs, config, pipeline, local, raw, tableVars, rd, egi>>

\* Line 75: pipeline.run_dataset(bids_paths). The argument is looked up before
\* the call is made.
RunDataset75 ==
    /\ At(75)
    /\ IF Bound(75)
       THEN \/ runs' = runs \o bids_paths /\ Complete(75)
            \/ Raise("RuntimeError") /\ UNCHANGED runs
       ELSE Raise("NameError") /\ UNCHANGED runs
    /\ UNCHANGED <<fs, config, pipeline, local, raw, tableVars, rd, egi>>

RdIdle == [paths |-> << >>, i |-> 0, phase |-> "idle", trace |-> << >>]

NoRaw == [chs |-> [n \in {} |-> "eeg"], nev |-> [n \in {} |-> 0],
          src |-> "none", preload |-> FALSE, event_id |-> {}]

NoTmp == [exists |-> FALSE, files |-> {}]

\* No call of egi_import_fct has been made.
EgiIdle ==
    [line |-> 0, call |-> 0, stims |-> << >>, stim_channel |-> "none",
     disk |-> [exists |-> FALSE, rec |-> NoRaw], raw |-> NoRaw,
     events |-> << >>, event_id |-> {}, tmp |-> NoTmp, trace |-> << >>,
     results |-> << >>]

\* A fresh interpreter in a working directory that may hold the configuration
\* file and the subject directory of an earlier run.
Init ==
    /\ pc = 9
    /\ status = "running"
    /\ error = "none"
    /\ log = << >>
    /\ globals = {}
    /\ fs \in {NoFiles} \cup
             {WriteFile(NoFiles, PipelineConfigPath, YamlDump(c)) : c \in Configs}
    /\ config = [state |-> "unbound", vals |-> NoVals]
    /\ pipeline = [state |-> "unbound", vals |-> NoVals]
    /\ local \in {{}, {SubjectDir}}
    /\ raw = "none"
    /\ runs = << >>
    /\ import_args = << >>
    /\ bids_path_args = << >>
    /\ csv = NoFiles
    /\ bids_paths = << >>
    /\ first_paths = << >>
    /\ written = NoFiles
    /\ rd = RdIdle
    /\ egi = EgiIdle

Next ==
    \/ Import
    \/ Assign
    \/ NewConfig
    \/ LoadDefault
    \/ PrintConfig
    \/ SaveConfig
    \/ DataPath
    \/ Mkdir
    \/ Download
    \/ NewBidsPath
    \/ ReadRawBids
    \/ NewPipeline
    \/ Run
    \/ RunDataset75

Spec == Init /\ [][Next]_vars

\* --------------------------------------------------- properties of the script

IsPrefix(s, t) == Len(s) <= Len(t) /\ SubSeq(t, 1, Len(s)) = s

C5_LinearOrder ==
    /\ IsPrefix(log, Lines)
    /\ status = "running" => pc = Lines[Len(log) + 1]
    /\ pipeline.state = "built" => 30 \in Range(log) /\ SavePath \in DOMAIN fs
    /\ raw /= "none" => 48 \in Range(log) /\ SubjectDir \in local

\* C5's case: every step up to the single-recording run has completed.
C5_Witness ==
    /\ pipeline.state = "built"
    /\ raw = Recording
    /\ runs = <<Recording>>

\* C6: once a call has raised, the script has stopped at that statement: the
\* exception is not caught, the call is not retried and no later statement
\* runs, so nothing changes any more.
C6_FailStop ==
    /\ [](error /= "none" => status = "failed")
    /\ [][error /= "none" => UNCHANGED vars]_vars

\* C6's case: the download of line 48 failed after the configuration was saved.
C6_Witness ==
    /\ status = "failed"
    /\ error = "RuntimeError"
    /\ pc = 48
    /\ 30 \in Range(log)

\* C7: every name the statement about to run looks up has been bound by a
\* statement that completed before it.
C7_NamesBound == status = "running" => Reads(pc) \subseteq globals

\* ------------------------------------------------------ parameter records

\* The characters parameter values are drawn from: two digits and a letter.
Alphabet == {"0", "1", "m"}

Texts(n) == UNION {[1..k -> Alphabet] : k \in 1..n}

\* 'STI 014' and the .mff paths of lines 119-120 (no run of digits alone).
STI014 == <<"S", "T", "I", " ", "0", "1", "4">>

MffPaths == {<<".", "/", "s", "0", "0", "4", ".", "m", "f", "f">>,
             <<".", "/", "s", "0", "0", "5", ".", "m", "f", "f">>}

\* '01' of line 122 and a value that is not a number.
ShortTexts == {<<"0", "1">>, <<"m">>}

\* The key order of the records of line 119 and of line 122.
ImportKeys == <<"stim_channel", "path_in">>

BidsKeys == <<"subject", "run", "session", "task">>

ImportRows ==
    {[stim_channel |-> StrVal(STI014), path_in |-> StrVal(p)] : p \in MffPaths}

BidsRows ==
    {[subject |-> StrVal(a), run |-> StrVal(b), session |-> StrVal(c),
      task |-> StrVal(<<"m", "m", "n">>)] :
        a \in Texts(MaxStrLen), b \in ShortTexts, c \in ShortTexts}

Tables(rows, n) == [1..n -> rows]

\* pd.DataFrame(records).to_csv(path, index=False): a header row of the keys
\* and one row per record, each cell the text of the value.
ToCsv(records, keys) ==
    [header |-> keys,
     rows |-> [i \in 1..Len(records) |->
                  [j \in 1..Len(keys) |-> TextOf(records[i][keys[j]])]]]

\* pd.read_csv infers one type per column: a column whose every cell is an
\* integer literal is read as integers, any other as strings.
ColumnIsInt(file, j) ==
    \A i \in 1..Len(file.rows) : IsIntLiteral(file.rows[i][j])

CellValue(file, i, j) ==
    IF ColumnIsInt(file, j) THEN IntVal(ParseInt(file.rows[i][j]))
    ELSE StrVal(file.rows[i][j])

Column(file, k) == CHOOSE j \in 1..Len(file.header) : file.header[j] = k

\* list(pd.read_csv(path).T.to_dict().values()): one record per row, keyed by
\* the header.
ReadCsv(file) ==
    [i \in 1..Len(file.rows) |->
        [k \in Range(file.header) |-> CellValue(file, i, Column(file, k))]]

\* The parameters of egi_import_fct (line 95).
EgiParams == {"path_in", "stim_channel"}

\* The BIDS path convert_dataset_to_bids builds from one path record: its
\* entities are the record's values.
BidsPathOf(rec) == rec

\* What convert_dataset_to_bids returns: one BIDS path per record, in order.
ConvertResult(iargs, bargs) == [i \in 1..Len(bargs) |-> BidsPathOf(bargs[i])]

AllStr(rec) == \A k \in DOMAIN rec : rec[k].t = "str"

\* ------------------------------------------------- lines 95-141, in turn

\* Line 95: def egi_import_fct(path_in, stim_channel)
DefEgi ==
    /\ At(95)
    /\ Complete(95)
    /\ UNCHANGED <<scriptVars, tableVars, rd, egi>>

\* Lines 119-123: the two record lists are bound, one path record per import
\* record.
AssignTables ==
    /\ \/ /\ At(119)
          /\ \E n \in 1..MaxRecords :
                \E t \in Tables(ImportRows, n) : import_args' = t
          /\ Complete(119)
          /\ UNCHANGED bids_path_args
       \/ /\ At(122)
          /\ \E t \in Tables(BidsRows, Len(import_args)) : bids_path_args' = t
          /\ Complete(122)
          /\ UNCHANGED import_args
    /\ UNCHANGED <<csv, bids_paths, first_paths, written, scriptVars, rd, egi>>

\* Lines 125 and 140: bids_paths = ll.bids.convert_dataset_to_bids(
\* egi_import_fct, import_args, bids_path_args, overwrite=True). The import
\* function is called with each import record as keyword arguments; a path
\* entity that is not a string may be refused.
Convert ==
    /\ \E l \in {125, 140} :
        /\ At(l)
        /\ IF ~Bound(l)
           THEN Raise("NameError") /\ UNCHANGED <<bids_paths, first_paths>>
           ELSE IF Len(import_args) /= Len(bids_path_args)
           THEN Raise("AssertionError") /\ UNCHANGED <<bids_paths, first_paths>>
           ELSE IF \E i \in 1..Len(import_args) :
                        DOMAIN import_args[i] /= EgiParams
           THEN Raise("TypeError") /\ UNCHANGED <<bids_paths, first_paths>>
           ELSE \/ /\ bids_paths' = ConvertResult(import_args, bids_path_args)
                   /\ first_paths' =
                        IF l = 125 THEN bids_paths' ELSE first_paths
                   /\ Complete(l)
                \/ /\ \E i \in 1..Len(bids_path_args) :
                        ~AllStr(bids_path_args[i])
                   /\ Raise("ValueError")
                   /\ UNCHANGED <<bids_paths, first_paths>>
                \/ /\ Raise("RuntimeError")
                   /\ UNCHANGED <<bids_paths, first_paths>>
    /\ UNCHANGED <<import_args, bids_path_args, csv, written, scriptVars, rd,
                   egi>>

\* Lines 132-133: pd.DataFrame(records).to_csv(path, index=False)
WriteCsv ==
    /\ \/ /\ At(132)
          /\ IF Bound(132)
             THEN \/ /\ csv' = WriteFile(csv, "import_args.csv",
                                         ToCsv(import_args, ImportKeys))
                     /\ written' =
                            WriteFile(written, "import_args.csv", import_args)
                     /\ Complete(132)
                  \/ Raise("OSError") /\ UNCHANGED <<csv, written>>
             ELSE Raise("NameError") /\ UNCHANGED <<csv, written>>
       \/ /\ At(133)
          /\ IF Bound(133)
             THEN \/ /\ csv' = WriteFile(csv, "bids_path_args.csv",
                                         ToCsv(bids_path_args, BidsKeys))
                     /\ written' = WriteFile(written, "bids_path_args.csv",
                                             bids_path_args)
                     /\ Complete(133)
                  \/ Raise("OSError") /\ UNCHANGED <<csv, written>>
             ELSE Raise("NameError") /\ UNCHANGED <<csv, written>>
    /\ UNCHANGED <<import_args, bids_path_args, bids_paths, first_paths,
                   scriptVars, rd, egi>>

\* Lines 138-139: records = list(pd.read_csv(path).T.to_dict().values())
LoadCsv ==
    /\ \/ /\ At(138)
          /\ IF ~Bound(138)
             THEN Raise("NameError") /\ UNCHANGED import_args
             ELSE IF "import_args.csv" \notin DOMAIN csv
             THEN Raise("FileNotFoundError") /\ UNCHANGED import_args
             ELSE /\ import_args' = ReadCsv(csv["import_args.csv"])
                  /\ Complete(138)
          /\ UNCHANGED bids_path_args
       \/ /\ At(139)
          /\ IF ~Bound(139)
             THEN Raise("NameError") /\ UNCHANGED bids_path_args
             ELSE IF "bids_path_args.csv" \notin DOMAIN csv
             THEN Raise("FileNotFoundError") /\ UNCHANGED bids_path_args
             ELSE /\ bids_path_args' = ReadCsv(csv["bids_path_args.csv"])
                  /\ Complete(139)
          /\ UNCHANGED import_args
    /\ UNCHANGED <<csv, bids_paths, first_paths, written, scriptVars, rd, egi>>

\* Line 141: pipeline.run_dataset(bids_paths): every path is loaded and run,
\* up to the first that fails.
RunDataset141 ==
    /\ At(141)
    /\ IF Bound(141)
       THEN \/ runs' = runs \o bids_paths /\ Complete(141)
            \/ \E k \in 0..(Len(bids_paths) - 1) :
                /\ runs' = runs \o SubSeq(bids_paths, 1, k)
                /\ Raise("RuntimeError")
       ELSE Raise("NameError") /\ UNCHANGED runs
    /\ UNCHANGED <<fs, config, pipeline, local, raw, tableVars, rd, egi>>

DefaultConfig == [project |-> StrVal(<<"m">>), n_jobs |-> IntVal(1)]

\* The conversion cells, entered with the names of lines 9-68 bound and their
\* effects in place.
TableInit ==
    /\ pc = 95
    /\ status = "running"
    /\ error = "none"
    /\ log = << >>
    /\ globals = ImportedNames \cup
                 {"config", "dataset", "subject", "bids_root", "datatype",
                  "session", "task", "suffix", "bids_path", "raw", "pipeline"}
    /\ fs = WriteFile(NoFiles, SavePath, YamlDump(DefaultConfig))
    /\ config = [state |-> "loaded", vals |-> DefaultConfig]
    /\ pipeline = [state |-> "built", vals |-> DefaultConfig]
    /\ local = {SubjectDir}
    /\ raw = Recording
    /\ runs = << >>
    /\ import_args = << >>
    /\ bids_path_args = << >>
    /\ csv = NoFiles
    /\ bids_paths = << >>
    /\ first_paths = << >>
    /\ written = NoFiles
    /\ rd = RdIdle
    /\ egi = EgiIdle

TableNext ==
    \/ DefEgi
    \/ AssignTables
    \/ Convert
    \/ WriteCsv
    \/ LoadCsv
    \/ RunDataset141

TableSpec == TableInit /\ [][TableNext]_vars

\* C1: the records read back from a CSV file are the records that were written
\* to it: same count, same keys and, for each key, the same value.
C1_CsvRoundTrip ==
    /\ 138 \in Range(log) => import_args = written["import_args.csv"]
    /\ 139 \in Range(log) => bids_path_args = written["bids_path_args.csv"]

\* C8: both conversions are given paired lists of equal length whose import
\* records have exactly the parameters of the import function as keys; the
\* records loaded from the CSV files have the count and keys of the records
\* in memory, and the second conversion returns the BIDS paths of the first.
C8_SameRecordings ==
    /\ (status = "running" /\ pc \in {125, 140}) =>
        /\ Len(import_args) = Len(bids_path_args)
        /\ \A i \in 1..Len(import_args) : DOMAIN import_args[i] = EgiParams
    /\ (status = "running" /\ pc = 140) =>
        /\ Len(bids_path_args) = Len(first_paths)
        /\ \A i \in 1..Len(bids_path_args) :
              DOMAIN bids_path_args[i] = DOMAIN first_paths[i]
    /\ 140 \in Range(log) => bids_paths = first_paths
    /\ ~(pc = 140 /\ error = "ValueError")

\* ---------------------------------------------- pipeline.run_dataset(paths)

\* The recordings a list of BIDS paths may name.
PathIds == {"sub-001", "sub-002"}

PathLists == UNION {[1..n -> PathIds] : n \in 0..MaxPaths}

Event(op, r) == [op |-> op, idx |-> r.i, path |-> r.paths[r.i]]

\* The call is entered with the list bound to bids_paths.
RdEnter ==
    /\ At(141)
    /\ rd.phase = "idle"
    /\ IF Bound(141)
       THEN /\ rd' = [paths |-> bids_paths, i |-> 1, phase |-> "load",
                      trace |-> << >>]
            /\ UNCHANGED interp
       ELSE Raise("NameError") /\ UNCHANGED rd
    /\ UNCHANGED <<scriptVars, tableVars, egi>>

\* The loop moves to the next path once the current one has been run; a
\* variant that passes over the path after it.
RdAfterRunSkip(r) == [r EXCEPT !.i = r.i + 2, !.phase = "load"]

RdAfterRun(r) == [r EXCEPT !.i = r.i + 1, !.phase = "load"]

\* One raw instance is loaded from the next path of the list.
RdLoad ==
    /\ At(141)
    /\ rd.phase = "load"
    /\ rd.i <= Len(rd.paths)
    /\ \/ /\ rd' = [rd EXCEPT !.phase = "run",
                              !.trace = Append(rd.trace, Event("load", rd))]
          /\ UNCHANGED interp
       \/ Raise("FileNotFoundError") /\ UNCHANGED rd
    /\ UNCHANGED <<scriptVars, tableVars, egi>>

\* pipeline.run(raw) is called with the raw instance just loaded.
RdRun ==
    /\ At(141)
    /\ rd.phase = "run"
    /\ \/ /\ rd' = RdAfterRun([rd EXCEPT
                        !.trace = Append(rd.trace, Event("run", rd))])
          /\ runs' = Append(runs, rd.paths[rd.i])
          /\ UNCHANGED interp
       \/ Raise("RuntimeError") /\ UNCHANGED <<rd, runs>>
    /\ UNCHANGED <<fs, config, pipeline, local, raw, tableVars, egi>>

\* The list is exhausted: the call returns and line 141 is complete.
RdReturn ==
    /\ At(141)
    /\ rd.phase = "load"
    /\ rd.i > Len(rd.paths)
    /\ rd' = [rd EXCEPT !.phase = "returned"]
    /\ Complete(141)
    /\ UNCHANGED <<scriptVars, tableVars, egi>>

\* Line 141 about to run, with any list of paths bound to bids_paths.
RunInit ==
    /\ pc = 141
    /\ status = "running"
    /\ error = "none"
    /\ log = << >>
    /\ globals = ImportedNames \cup {"pipeline", "bids_paths"}
    /\ fs = WriteFile(NoFiles, SavePath, YamlDump(DefaultConfig))
    /\ config = [state |-> "loaded", vals |-> DefaultConfig]
    /\ pipeline = [state |-> "built", vals |-> DefaultConfig]
    /\ local = {SubjectDir}
    /\ raw = Recording
    /\ runs = << >>
    /\ import_args = << >>
    /\ bids_path_args = << >>
    /\ csv = NoFiles
    /\ bids_paths \in PathLists
    /\ first_paths = << >>
    /\ written = NoFiles
    /\ rd = RdIdle
    /\ egi = EgiIdle

RunNext ==
    \/ RdEnter
    \/ RdLoad
    \/ RdRun
    \/ RdReturn

RunSpec == RunInit /\ [][RunNext]_vars

\* load, run, load, run, ... over the list, in list order.
Interleave(paths) ==
    [j \in 1..(2 * Len(paths)) |->
        [op |-> IF j % 2 = 1 THEN "load" ELSE "run",
         idx |-> (j + 1) \div 2,
         path |-> paths[(j + 1) \div 2]]]

\* C3: run_dataset works through the list it was given in order: it loads the
\* raw of path i, then runs it, before it loads path i+1; when it returns it
\* has loaded and run every path of the list exactly once and nothing else.
C3_Sequential ==
    /\ rd.phase /= "idle" => rd.paths = bids_paths
    /\ IsPrefix(rd.trace, Interleave(rd.paths))
    /\ rd.phase = "run" => Len(rd.trace) % 2 = 1
    /\ rd.phase = "returned" =>
        /\ rd.trace = Interleave(bids_paths)
        /\ runs = bids_paths

\* C3's case: a call over three paths, one of them twice, has returned.
C3_Witness ==
    /\ rd.phase = "returned"
    /\ bids_paths = <<"sub-001", "sub-002", "sub-001">>
    /\ Len(rd.trace) = 6

\* ------------------------------------- egi_import_fct(path_in, stim_channel)

\* The channels an EGI recording may hold, and the values the stim_channel
\* argument may take.
EegNames == {"E1", "E129"}

StimNames == {"STI 014", "DIN1"}

\* A recording: its channels with their types, and the number of events on
\* each stimulus channel.
RecordingOf(e, f) ==
    [chs |-> [n \in e \cup DOMAIN f |-> IF n \in e THEN "eeg" ELSE "stim"],
     nev |-> f, src |-> "mff", preload |-> TRUE, event_id |-> DOMAIN f]

Recordings ==
    {RecordingOf(e, f) :
        e \in SUBSET EegNames,
        f \in UNION {[st -> 0..MaxEvents] : st \in SUBSET StimNames}}

\* Line 101 searches the events on a fixed channel, whatever stim_channel is;
\* a variant that searches the channel it is given.
StimChannelsSearchedArg(stim_channel) == {stim_channel}

StimChannelsSearched(stim_channel) == {"STI 014"}

\* mne.find_events(raw, stim_channel=chans): the events on those channels.
FindEvents(r, chans) ==
    [c \in chans |-> [k \in 1..r.nev[c] |-> [chan |-> c, k |-> k]]]

\* raw.pick_types(eeg=True, stim=False); a variant that keeps every channel.
PickTypesAll(r) == r

PickTypes(r) ==
    LET keep == {n \in DOMAIN r.chs : r.chs[n] = "eeg"}
    IN  [r EXCEPT !.chs = [n \in keep |-> r.chs[n]],
                  !.nev = [n \in {} |-> 0]]

\* raw.rename_channels({old: new})
RenameChannels(r, old, new) ==
    [r EXCEPT !.chs = [n \in (DOMAIN r.chs \ {old}) \cup {new} |->
                          IF n = new THEN r.chs[old] ELSE r.chs[n]]]

\* raw.save(file) writes the channels and their data; read_raw_fif(file,
\* preload=True) gives a Raw backed by that file with the data in memory. The
\* event_id attribute belongs to the EGI reader's object only.
FifOf(r) == [chs |-> r.chs, nev |-> r.nev]

ReadRawFif(file) ==
    [chs |-> file.chs, nev |-> file.nev, src |-> "fif", preload |-> TRUE,
     event_id |-> {}]

\* The temporary directory when the with block of line 105 is left, by its
\* end or by an exception: the context manager removes it. A variant that
\* leaves it in place when an exception passes through.
TmpAfterExceptionKept(t) == t

TmpAfterException(t) == NoTmp

TmpAfterExit(t) == NoTmp

EgiAt(l) == status = "running" /\ pc = 125 /\ egi.line = l

EgiBound(l) == EgiReads(l) \subseteq globals

EgiStep(l, next) == [egi EXCEPT !.line = next, !.trace = Append(egi.trace, l)]

\* convert_dataset_to_bids calls the import function with the next import
\* record: the same path_in, the record's stim_channel.
EgiCall ==
    /\ EgiAt(0)
    /\ egi.call < Len(egi.stims)
    /\ egi' = [egi EXCEPT !.line = 98, !.call = egi.call + 1,
                          !.stim_channel = egi.stims[egi.call + 1],
                          !.raw = NoRaw, !.events = << >>, !.event_id = {},
                          !.tmp = NoTmp, !.trace = << >>]
    /\ UNCHANGED <<interp, scriptVars, tableVars, rd>>

\* Line 98: raw = mne.io.read_raw_egi(path_in, preload=True)
ReadRawEgi ==
    /\ EgiAt(98)
    /\ IF ~EgiBound(98) THEN Raise("NameError") /\ UNCHANGED egi
       ELSE IF ~egi.disk.exists
       THEN Raise("FileNotFoundError") /\ UNCHANGED egi
       ELSE /\ egi' = [EgiStep(98, 101) EXCEPT !.raw = egi.disk.rec]
            /\ UNCHANGED interp
    /\ UNCHANGED <<scriptVars, tableVars, rd>>

\* Line 101: events = mne.find_events(raw, stim_channel=['STI 014'])
FindEventsStep ==
    /\ EgiAt(101)
    /\ LET chans == StimChannelsSearched(egi.stim_channel)
       IN  IF ~EgiBound(101) THEN Raise("NameError") /\ UNCHANGED egi
           ELSE IF ~(chans \subseteq DOMAIN egi.raw.nev)
           THEN Raise("ValueError") /\ UNCHANGED egi
           ELSE /\ egi' = [EgiStep(101, 102) EXCEPT
                              !.events = FindEvents(egi.raw, chans)]
                /\ UNCHANGED interp
    /\ UNCHANGED <<scriptVars, tableVars, rd>>

\* Line 102: event_id = raw.event_id
EventId ==
    /\ EgiAt(102)
    /\ egi' = [EgiStep(102, 105) EXCEPT !.event_id = egi.raw.event_id]
    /\ UNCHANGED <<interp, scriptVars, tableVars, rd>>

\* Line 105: with tempfile.TemporaryDirectory() as temp_dir
WithEnter ==
    /\ EgiAt(105)
    /\ IF ~EgiBound(105) THEN Raise("NameError") /\ UNCHANGED egi
       ELSE \/ /\ egi' = [EgiStep(105, 106) EXCEPT
                             !.tmp = [exists |-> TRUE, files |-> {}]]
               /\ UNCHANGED interp
            \/ Raise("OSError") /\ UNCHANGED egi
    /\ UNCHANGED <<scriptVars, tableVars, rd>>

\* Line 106: raw.save(Path(temp_dir) / "tmp_raw.fif"), inside the block: an
\* exception leaves the block on its way out of the function.
SaveFif ==
    /\ EgiAt(106)
    /\ IF ~EgiBound(106)
       THEN /\ Raise("NameError")
            /\ egi' = [egi EXCEPT !.tmp = TmpAfterException(egi.tmp)]
       ELSE \/ /\ egi' = [EgiStep(106, 109) EXCEPT
                             !.tmp.files = {[name |-> "tmp_raw.fif",
                                             data |-> FifOf(egi.raw)]}]
               /\ UNCHANGED interp
            \/ /\ Raise("OSError")
               /\ egi' = [egi EXCEPT !.tmp = TmpAfterException(egi.tmp)]
    /\ UNCHANGED <<scriptVars, tableVars, rd>>

\* Line 109: raw = mne.io.read_raw_fif(Path(temp_dir) / 'tmp_raw.fif',
\* preload=True), inside the block.
ReadFif ==
    /\ EgiAt(109)
    /\ IF ~EgiBound(109)
       THEN /\ Raise("NameError")
            /\ egi' = [egi EXCEPT !.tmp = TmpAfterException(egi.tmp)]
       ELSE \/ \E f \in egi.tmp.files :
                /\ f.name = "tmp_raw.fif"
                /\ egi' = [EgiStep(109, 110) EXCEPT !.raw = ReadRawFif(f.data)]
                /\ UNCHANGED interp
            \/ /\ Raise("OSError")
               /\ egi' = [egi EXCEPT !.tmp = TmpAfterException(egi.tmp)]
    /\ UNCHANGED <<scriptVars, tableVars, rd>>

\* The end of the with block (after line 109): the directory is removed.
WithExit ==
    /\ EgiAt(110)
    /\ egi' = [EgiStep(110, 112) EXCEPT !.tmp = TmpAfterExit(egi.tmp)]
    /\ UNCHANGED <<interp, scriptVars, tableVars, rd>>

\* Line 112: raw.pick_types(eeg=True, stim=False)
PickTypesStep ==
    /\ EgiAt(112)
    /\ IF DOMAIN PickTypes(egi.raw).chs = {}
       THEN Raise("ValueError") /\ UNCHANGED egi
       ELSE /\ egi' = [EgiStep(112, 113) EXCEPT !.raw = PickTypes(egi.raw)]
            /\ UNCHANGED interp
    /\ UNCHANGED <<scriptVars, tableVars, rd>>

\* Line 113: raw.rename_channels({'E129': 'Cz'})
RenameStep ==
    /\ EgiAt(113)
    /\ IF "E129" \notin DOMAIN egi.raw.chs
       THEN Raise("ValueError") /\ UNCHANGED egi
       ELSE /\ egi' = [EgiStep(113, 115) EXCEPT
                          !.raw = RenameChannels(egi.raw, "E129", "Cz")]
            /\ UNCHANGED interp
    /\ UNCHANGED <<scriptVars, tableVars, rd>>

\* Line 115: return raw, events, event_id
EgiReturn ==
    /\ EgiAt(115)
    /\ egi' = [EgiStep(115, 0) EXCEPT
                  !.results = Append(egi.results,
                                     [raw |-> egi.raw, events |-> egi.events,
                                      event_id |-> egi.event_id,
                                      stim_channel |-> egi.stim_channel,
                                      trace |-> Append(egi.trace, 115)])]
    /\ UNCHANGED <<interp, scriptVars, tableVars, rd>>

\* The namespaces the function is called in: the one the imports of the file
\* leave (neither mne nor Path is bound by them) and those in which the
\* session has bound mne, Path or both.
EgiNamespaces ==
    {ImportedNames \cup {"egi_import_fct", "import_args", "bids_path_args"}
        \cup x : x \in SUBSET {"mne", "Path"}}

\* Line 125 is calling the import function for two import records naming the
\* same file, which may or may not be on disk.
EgiInit ==
    /\ pc = 125
    /\ status = "running"
    /\ error = "none"
    /\ log = << >>
    /\ globals \in EgiNamespaces
    /\ fs = WriteFile(NoFiles, SavePath, YamlDump(DefaultConfig))
    /\ config = [state |-> "loaded", vals |-> DefaultConfig]
    /\ pipeline = [state |-> "built", vals |-> DefaultConfig]
    /\ local = {SubjectDir}
    /\ raw = Recording
    /\ runs = << >>
    /\ import_args = << >>
    /\ bids_path_args = << >>
    /\ csv = NoFiles
    /\ bids_paths = << >>
    /\ first_paths = << >>
    /\ written = NoFiles
    /\ rd = RdIdle
    /\ \E s1 \in StimNames, s2 \in StimNames :
        \E d \in {[exists |-> FALSE, rec |-> NoRaw]} \cup
                 {[exists |-> TRUE, rec |-> r] : r \in Recordings} :
            egi = [EgiIdle EXCEPT !.stims = <<s1, s2>>, !.disk = d]

EgiNext ==
    \/ EgiCall
    \/ ReadRawEgi
    \/ FindEventsStep
    \/ EventId
    \/ WithEnter
    \/ SaveFif
    \/ ReadFif
    \/ WithExit
    \/ PickTypesStep
    \/ RenameStep
    \/ EgiReturn

EgiSpec == EgiInit /\ [][EgiNext]_vars

\* The lines of the function body in the order they are written.
EgiLines == <<98, 101, 102, 105, 106, 109, 110, 112, 113, 115>>

\* C4: the temporary directory exists, holding tmp_raw.fif, from the moment
\* the file has been saved until the preloading read has completed; it is
\* gone in every state outside the with block, whether the block was left at
\* its end or by an exception; the Raw used after the block has its data in
\* memory, so nothing after the block reads the directory.
C4_TempDirScope ==
    /\ (status = "running" /\ egi.line \in {109, 110}) =>
        /\ egi.tmp.exists
        /\ \E f \in egi.tmp.files : f.name = "tmp_raw.fif"
    /\ (status = "failed" \/ egi.line \notin {106, 109, 110}) =>
        ~egi.tmp.exists
    /\ egi.line \in {112, 113, 115} =>
        egi.raw.src = "fif" /\ egi.raw.preload
    /\ \A k \in 1..Len(egi.results) : egi.results[k].raw.preload

\* C4's case: one call left the block at its end and returned; the next call
\* saved the file and left the block by a failure of read_raw_fif.
C4_Witness ==
    /\ Len(egi.results) = 1
    /\ status = "failed"
    /\ error = "OSError"
    /\ egi.line = 109
    /\ egi.trace = <<98, 101, 102, 105, 106>>

\* C9: the lines of the function run in the order written, so the events are
\* found (line 101) while the stimulus channel is still there, before line 112
\* drops it; what is returned is the events found on 'STI 014' of the file
\* and a Raw that holds EEG channels only, has 'Cz' in place of 'E129', and is
\* the preloaded copy read from the intermediate file.
C9_ReturnedTriple ==
    /\ IsPrefix(egi.trace, EgiLines)
    /\ \A k \in 1..Len(egi.results) :
        LET r == egi.results[k]
        IN  /\ r.trace = EgiLines
            /\ \A n \in DOMAIN r.raw.chs : r.raw.chs[n] = "eeg"
            /\ "Cz" \in DOMAIN r.raw.chs
            /\ "E129" \notin DOMAIN r.raw.chs
            /\ r.raw.src = "fif"
            /\ r.raw.preload
            /\ r.events = FindEvents(egi.disk.rec, {"STI 014"})
            /\ r.event_id = egi.disk.rec.event_id

\* C9's case: a call returned for a recording with two EEG channels, two
\* stimulus channels and an event on 'STI 014'.
C9_Witness ==
    /\ Len(egi.results) >= 1
    /\ DOMAIN egi.results[1].raw.chs = {"E1", "Cz"}
    /\ Len(egi.results[1].events["STI 014"]) = 1
    /\ egi.disk.rec.event_id = {"STI 014", "DIN1"}

\* C10: two calls on the same file return the same raw, events and event_id
\* whatever stim_channel each was given.
C10_StimChannelIgnored ==
    \A j, k \in 1..Len(egi.results) :
        /\ egi.results[j].raw = egi.results[k].raw
        /\ egi.results[j].events = egi.results[k].events
        /\ egi.results[j].event_id = egi.results[k].event_id

\* C10's case: two calls given different stim_channel values have returned,
\* for a file whose two stimulus channels carry different events.
C10_Witness ==
    /\ Len(egi.results) = 2
    /\ egi.results[1].stim_channel = "STI 014"
    /\ egi.results[2].stim_channel = "DIN1"
    /\ DOMAIN egi.disk.rec.nev = StimNames
    /\ egi.disk.rec.nev["STI 014"] = 1
    /\ egi.disk.rec.nev["DIN1"] = 0

====
